---- MODULE Spec2Model ----
(***************************************************************************)
(* Model of the pull scanner of the hdl repository (package scanner):      *)
(* Scanner.New, Scanner.Scan and the helpers next, skipSpace, moveToken,   *)
(* literal and comment, with token.Lookup and description.Comment.IsAPI.   *)
(* The input is a sequence of bytes (integers 0..255); runes are integers. *)
(***************************************************************************)
EXTENDS Integers, Sequences, FiniteSets, TLC

(***************************************************************************)
(* Bounds of the model.                                                    *)
(***************************************************************************)
\* longest enumerated input, in bytes
MaxLen == 4
\* number of EOF tokens a run may collect (Scan calls after the first EOF)
MaxTail == 2

(***************************************************************************)
(* Program and library constants.                                          *)
(***************************************************************************)
eof == -1
RuneSelf == 128
RuneError == 65533
UTFMax == 4

\* the bytes the model names: ASCII codes, the two bytes of the letter U+03B3
\* (lead, cont) and the two bytes of the sign U+00D7 (lead2, cont2)
B == [ tab |-> 9, lf |-> 10, cr |-> 13, sp |-> 32, star |-> 42, comma |-> 44,
       dot |-> 46, slash |-> 47, d0 |-> 48, d1 |-> 49, d2 |-> 50, d9 |-> 57,
       colon |-> 58, semi |-> 59, eq |-> 61, lpar |-> 40, rpar |-> 41,
       lidx |-> 91, ridx |-> 93, ldel |-> 123, rdel |-> 125, us |-> 95,
       x |-> 120, a |-> 97, lead |-> 206, cont |-> 179,
       lead2 |-> 195, cont2 |-> 151 ]

(***************************************************************************)
(* Sequence helpers.                                                       *)
(***************************************************************************)
\* Go's src[i:j] with 0-based i (included) and j (excluded)
Slice(s, i, j) == [k \in 1..(j - i) |-> s[i + k]]

HasPrefix(s, p) == Len(s) >= Len(p) /\ Slice(s, 0, Len(p)) = p

\* all sequences over A of length at most n
SeqsUpTo(A, n) == UNION {[1..k -> A] : k \in 0..n}

(***************************************************************************)
(* unicode/utf8 and unicode, as the scanner uses them.                     *)
(***************************************************************************)
IsCont(b) == b >= 128 /\ b <= 191

RuneStart(b) == ~IsCont(b)

\* size announced by a leading byte, 0 when the byte cannot lead
LeadSize(b) ==
    IF b >= 194 /\ b <= 223 THEN 2
    ELSE IF b >= 224 /\ b <= 239 THEN 3
    ELSE IF b >= 240 /\ b <= 244 THEN 4
    ELSE 0

\* accepted range of the second byte
AcceptLo(b) == IF b = 224 THEN 160 ELSE IF b = 240 THEN 144 ELSE 128

AcceptHi(b) == IF b = 237 THEN 159 ELSE IF b = 244 THEN 143 ELSE 191

\* utf8.DecodeRune on a multi-byte sequence whose leading byte announces sz
DecodeMulti(p, sz) ==
    IF sz = 0 \/ Len(p) < sz THEN <<RuneError, 1>>
    ELSE IF p[2] < AcceptLo(p[1]) \/ p[2] > AcceptHi(p[1]) THEN <<RuneError, 1>>
    ELSE IF sz = 2 THEN <<(p[1] % 32) * 64 + (p[2] % 64), 2>>
    ELSE IF ~IsCont(p[3]) THEN <<RuneError, 1>>
    ELSE IF sz = 3 THEN <<(p[1] % 16) * 4096 + (p[2] % 64) * 64 + (p[3] % 64), 3>>
    ELSE IF ~IsCont(p[4]) THEN <<RuneError, 1>>
    ELSE <<(p[1] % 8) * 262144 + (p[2] % 64) * 4096 + (p[3] % 64) * 64 + (p[4] % 64), 4>>

\* utf8.DecodeRune: FIRST rune of p and its width
DecodeRune(p) ==
    IF Len(p) < 1 THEN <<RuneError, 0>>
    ELSE IF p[1] < RuneSelf THEN <<p[1], 1>>
    ELSE DecodeMulti(p, LeadSize(p[1]))

RECURSIVE BackToStart(_, _, _)
\* the backward search of utf8.DecodeLastRune: 0-based index where it stops
BackToStart(p, start, lim) ==
    IF start < lim THEN start
    ELSE IF RuneStart(p[start + 1]) THEN start
    ELSE BackToStart(p, start - 1, lim)

\* the end of utf8.DecodeLastRune: d is the rune decoded at start
lastRuneIs(p, start, d) == IF start + d[2] # Len(p) THEN <<RuneError, 1>> ELSE d

lastRuneFrom(p, start) == lastRuneIs(p, start, DecodeRune(Slice(p, start, Len(p))))

Max0(n) == IF n < 0 THEN 0 ELSE n

\* utf8.DecodeLastRune: LAST rune of p and its width
DecodeLastRune(p) ==
    IF Len(p) = 0 THEN <<RuneError, 0>>
    ELSE IF p[Len(p)] < RuneSelf THEN <<p[Len(p)], 1>>
    ELSE lastRuneFrom(p, Max0(BackToStart(p, Len(p) - 2, Max0(Len(p) - UTFMax))))

\* unicode.IsLetter on the runes the model's bytes can encode
IsLetter(r) ==
    \/ r >= 65 /\ r <= 90
    \/ r >= 97 /\ r <= 122
    \/ r >= 192 /\ r <= 214
    \/ r >= 216 /\ r <= 246
    \/ r >= 248 /\ r <= 705
    \/ r >= 910 /\ r <= 929
    \/ r >= 931 /\ r <= 1013

isDigit(r) == 48 <= r /\ r <= 57

isAlphanumeric(r) == isDigit(r) \/ IsLetter(r) \/ r = B.us

startComment(r) == r = B.slash

isSpace(r) == r = B.sp \/ r = B.tab \/ r = B.cr \/ r = B.lf


(***************************************************************************)
(* token.Lookup and the keyword table.                                     *)
(***************************************************************************)
\* spellings, as byte sequences
W == [ chip |-> <<67, 72, 73, 80>>, in |-> <<73, 78>>, out |-> <<79, 85, 84>>,
       parts |-> <<80, 65, 82, 84, 83>>,
       clocked |-> <<67, 76, 79, 67, 75, 69, 68>>,
       true |-> <<116, 114, 117, 101>>, false |-> <<102, 97, 108, 115, 101>> ]

keywords == { <<W.chip, "DECL">>, <<W.in, "IN">>, <<W.out, "OUT">>,
              <<W.parts, "PARTS">>, <<W.clocked, "CLOCKED">> }

Lookup(lit) ==
    IF \E k \in keywords : k[1] = lit
    THEN (CHOOSE k \in keywords : k[1] = lit)[2]
    ELSE IF lit = W.true THEN "TRUE"
    ELSE IF lit = W.false THEN "FALSE"
    ELSE "IDENT"

(***************************************************************************)
(* description.Comment predicates on a comment literal.                    *)
(***************************************************************************)
IsEOL(lit) == HasPrefix(lit, <<B.slash, B.slash>>)

IsMultiline(lit) == HasPrefix(lit, <<B.slash, B.star>>)

IsAPI(lit) == HasPrefix(lit, <<B.slash, B.star, B.star>>)

(***************************************************************************)
(* The Scanner.  A scanner value is a record of the fields of the struct.  *)
(***************************************************************************)
Position(file, l, c) == [file |-> file, line |-> l, column |-> c]

\* a comparison that also holds between equal positions
LessOrSame(p, q) ==
    IF p.line < q.line THEN TRUE
    ELSE IF p.line > q.line THEN FALSE
    ELSE p.column <= q.column

\* Position.Less of package token: p is strictly before q
Less(p, q) ==
    IF p.line < q.line THEN TRUE
    ELSE IF p.line > q.line THEN FALSE
    ELSE p.column < q.column

Line(p) == p.line + 1

Column(p) == p.column + 1

\* a next that also restarts the column at a carriage return
advanceCRReset(s) ==
    [s EXCEPT !.pos = s.pos + s.w,
              !.line = IF s.current = B.lf THEN s.line + 1 ELSE s.line,
              !.col = IF s.current \in {B.lf, B.cr} THEN 0 ELSE s.col + s.w]

\* Scanner.next, lines 133-138: move over the current rune
advance(s) ==
    [s EXCEPT !.pos = s.pos + s.w,
              !.line = IF s.current = B.lf THEN s.line + 1 ELSE s.line,
              !.col = IF s.current = B.lf THEN 0 ELSE s.col + s.w]

\* Scanner.next, lines 151-157: the rune d read from a non-ASCII byte
setRune(s, d) ==
    [s EXCEPT !.current = d[1], !.w = d[2],
              !.errs = IF d[1] = RuneError
                       THEN Append(s.errs, Position(s.filename, s.line, s.col))
                       ELSE s.errs]

\* Scanner.next, lines 140-158: read the rune at pos
readRune(s) ==
    IF s.pos >= Len(s.src) THEN [s EXCEPT !.current = eof, !.w = 0]
    ELSE IF s.src[s.pos + 1] < RuneSelf
    THEN [s EXCEPT !.current = s.src[s.pos + 1], !.w = 1]
    ELSE setRune(s, DecodeLastRune(Slice(s.src, s.pos, Len(s.src))))

\* Scanner.next: move to the next rune
next(s) == readRune(advance(s))

\* a moveToken that records the offset where the current rune stops
moveTokenAhead(s) ==
    [s EXCEPT !.start = s.pos + s.w, !.tokLine = s.line, !.tokCol = s.col]

\* Scanner.moveToken: the token position becomes the current position
moveToken(s) == [s EXCEPT !.start = s.pos, !.tokLine = s.line, !.tokCol = s.col]

\* the conditions of the scanner's loops `for cond(s.current) { s.next() }`
loopCond(c, r) ==
    IF c = "space" THEN isSpace(r)
    ELSE IF c = "digit" THEN isDigit(r)
    ELSE IF c = "alnum" THEN isAlphanumeric(r)
    ELSE IF c = "notEOL" THEN r # eof /\ r # B.lf /\ r # B.cr
    ELSE r # B.star /\ r # eof

RECURSIVE skipWhile(_, _)
\* for cond(s.current) { s.next() }
skipWhile(c, s) == IF loopCond(c, s.current) THEN skipWhile(c, next(s)) ELSE s

\* Scanner.skipSpace
skipSpace(s) == moveToken(skipWhile("space", s))

\* Scanner.literal
literal(s) == Slice(s.src, s.start, s.pos)

\* New: a ready-to-use scanner
New(file, bytes) ==
    next([filename |-> file, src |-> bytes, current |-> 0, w |-> 0,
          pos |-> 0, line |-> 0, col |-> 0,
          start |-> 0, tokLine |-> 0, tokCol |-> 0, errs |-> <<>>])

Ret(s, tok, lit) == [s |-> s, tok |-> tok, lit |-> lit]

\* tok = ...; lit = s.literal(); s.moveToken(); return
retMoved(s, tok) == Ret(moveToken(s), tok, literal(s))

\* findRight without its outer loop: it gives up at the first '*' that is
\* not followed by '/'
afterStarNoLoop(s) ==
    IF s.current = B.slash THEN retMoved(next(s), "COMMENT")
    ELSE Ret(s, "ILLEGAL", literal(s))

atStarNoLoop(s) ==
    IF s.current = eof THEN Ret(s, "ILLEGAL", literal(s))
    ELSE afterStarNoLoop(next(s))

findRightNoLoop(s) == atStarNoLoop(skipWhile("notStar", s))

RECURSIVE findRight(_)
\* lines 249-258: the rune after a '*'
afterStar(s) ==
    IF s.current = B.slash THEN retMoved(next(s), "COMMENT")
    ELSE findRight(s)

\* lines 243-250: the current rune is '*' or eof
atStar(s) ==
    IF s.current = eof THEN Ret(s, "ILLEGAL", literal(s))
    ELSE afterStar(next(s))

\* Scanner.comment, lines 239-259: the loop that looks for "*/"
findRight(s) == atStar(skipWhile("notStar", s))

\* Scanner.comment, lines 219-259: the left delimiter is known
afterLeft(s) ==
    IF Slice(s.src, s.start, s.pos) = <<B.slash, B.slash>>
    THEN retMoved(next(skipWhile("notEOL", s)), "COMMENT")
    ELSE findRight(s)

\* lines 201-209: the rune after "/**"
fourthRune(s) ==
    IF s.current = B.slash THEN retMoved(next(s), "COMMENT")
    ELSE afterLeft(s)

\* lines 197-210: the rune after "/*"
thirdRune(s) ==
    IF s.current = B.star THEN fourthRune(next(s))
    ELSE afterLeft(s)

\* lines 188-217: the rune after the first '/'
secondRune(s) ==
    IF s.current = B.slash THEN afterLeft(next(s))
    ELSE IF s.current = B.star THEN thirdRune(next(s))
    ELSE retMoved(s, "ILLEGAL")

\* Scanner.comment: the current rune is '/'
comment(s) == secondRune(next(s))

\* the inner switch of Scan on simple tokens
simpleToken(r) ==
    IF r = B.comma THEN "COMMA"
    ELSE IF r = B.semi THEN "SEMICOLON"
    ELSE IF r = B.colon THEN "COLON"
    ELSE IF r = B.ldel THEN "LEFTDELIM"
    ELSE IF r = B.rdel THEN "RIGTDELIM"
    ELSE IF r = B.lpar THEN "LEFTPAR"
    ELSE IF r = B.rpar THEN "RIGHTPAR"
    ELSE IF r = B.lidx THEN "LEFTINDEX"
    ELSE IF r = B.ridx THEN "RIGHTINDEX"
    ELSE IF r = B.eq THEN "PIPE"
    ELSE "ILLEGAL"

\* lines 75-85: the rune after a '.'
afterDot(s) ==
    IF s.current = B.dot THEN Ret(next(s), "RANGE", <<B.dot, B.dot>>)
    ELSE Ret(s, "ILLEGAL", <<B.dot>>)

\* lines 67-73: the word has been read
word(s) == Ret(moveToken(s), Lookup(literal(s)), literal(s))

\* a switch that returns the lone '.' without reading it
classifyDotUnread(s) ==
    IF s.current = eof THEN Ret(s, "EOF", <<>>)
    ELSE IF isDigit(s.current) THEN retMoved(skipWhile("digit", s), "NUMBER")
    ELSE IF IsLetter(s.current) THEN word(skipWhile("alnum", s))
    ELSE IF s.current = B.dot /\ next(s).current # B.dot
    THEN Ret(s, "ILLEGAL", <<B.dot>>)
    ELSE IF s.current = B.dot THEN afterDot(next(s))
    ELSE IF startComment(s.current) THEN comment(s)
    ELSE retMoved(next(s), simpleToken(s.current))

\* the switch of Scan, on a scanner that has skipped the whitespace
classify(s) ==
    IF s.current = eof THEN Ret(s, "EOF", <<>>)
    ELSE IF isDigit(s.current) THEN retMoved(skipWhile("digit", s), "NUMBER")
    ELSE IF IsLetter(s.current) THEN word(skipWhile("alnum", s))
    ELSE IF s.current = B.dot THEN afterDot(next(s))
    ELSE IF startComment(s.current) THEN comment(s)
    ELSE retMoved(next(s), simpleToken(s.current))

\* what a Scan call gives: the scanner after the call and the returned
\* triple; p is the position read at line 52, r the outcome of the switch;
\* off and end are the byte offsets where the call's token starts and stops
scanned(p, off, r) ==
    [s |-> r.s,
     out |-> [pos |-> p, tok |-> r.tok, lit |-> r.lit, off |-> off, end |-> r.s.pos]]

\* Scan from line 52 on, on a scanner that has skipped the whitespace
scanToken(s) ==
    scanned(Position(s.filename, s.tokLine, s.tokCol), s.start, classify(s))

\* Scan reading the token position before it skips the whitespace
ScanOfPosFirst(s) ==
    scanned(Position(s.filename, s.tokLine, s.tokCol), skipSpace(s).start,
            classify(skipSpace(s)))

\* Scanner.Scan
ScanOf(s) == scanToken(skipSpace(s))

(***************************************************************************)
(* Inputs.  TestInputs are the sources of the repository's scanner tests   *)
(* (TestScanner, TestPosition); MoreInputs are sources built around the    *)
(* cases of the properties below.                                          *)
(***************************************************************************)
TestInputs == {    \* keywords
    <<67, 72, 73, 80, 32, 73, 78, 32, 79, 85, 84, 32, 80, 65, 82, 84, 83, 32, 67, 76, 79, 67, 75, 69, 68>>,
    \* delimiters and separators
    <<44, 59, 58, 123, 125, 40, 41, 91, 93, 46, 46, 61>>,
    \* identifiers and literals
    <<67, 104, 105, 112, 32, 105, 110, 118, 97, 108, 105, 100, 32, 100, 101, 99, 108, 97, 114, 97, 116, 105, 111, 110, 95, 49, 10, 49, 52, 50, 32, 116, 114, 117, 101, 32, 102, 97, 108, 115, 101>>,
    \* non ASCII
    <<206, 179, 206, 184, 206, 185, 207, 128>>,
    \* indexing and buses
    <<97, 91, 49, 54, 93, 32, 98, 91, 50, 46, 46, 56, 93>>,
    \* simple comments
    <<47, 47, 32, 99, 111, 109, 109, 101, 110, 116, 10, 67, 72, 73, 80, 32, 47, 47, 32, 117, 110, 116, 105, 108, 32, 101, 110, 100, 32, 111, 102, 32, 108, 105, 110, 101, 10, 47, 47, 32, 97, 110, 100, 32, 117, 115, 101, 108, 101, 115, 115, 32, 47, 47>>,
    \* multiline comments
    <<47, 42, 32, 67, 72, 73, 80, 32, 42, 47, 47, 42, 42, 47, 32, 47, 42, 32, 97, 42, 98, 32, 42, 47, 67, 72, 73, 80>>,
    \* API comment
    <<47, 42, 42, 10, 32, 32, 100, 111, 99, 32, 111, 102, 32, 116, 104, 101, 32, 67, 72, 73, 80, 10, 42, 47, 10, 67, 72, 73, 80, 32, 65, 110, 100>>,
    \* illegal
    <<67, 72, 73, 80, 32, 42>>,
    \* illegal float number
    <<49, 46, 50>>,
    \* wrong comment
    <<47, 32, 116, 104, 105, 115, 32, 105, 115, 32, 97, 110, 32, 101, 114, 114, 111, 114>>,
    \* unclosed comment
    <<47, 42, 32, 117, 110, 99, 108, 111, 115, 101, 100, 32, 99, 111, 109, 109, 101, 110, 116, 10, 115, 101, 99, 111, 110, 100, 32, 108, 105, 110, 101>>,
    \* unclosed API comment
    <<47, 42, 42, 32, 65, 110, 111, 116, 104, 101, 114, 10, 117, 110, 99, 108, 111, 115, 101, 100, 10, 99, 111, 109, 109, 101, 110, 116>>,
    \* declaration
    <<67, 72, 73, 80, 32, 65, 110, 100, 32, 123, 10, 9, 73, 78, 32, 97, 44, 32, 98, 59, 10, 9, 79, 85, 84, 32, 111, 117, 116, 59>>,
    \* invalid line 2
    <<67, 72, 73, 80, 32, 65, 110, 100, 32, 123, 10, 9, 42, 125>> }

MoreInputs == {    \* spec: block comment: /* x */
    <<47, 42, 32, 120, 32, 42, 47>>,
    \* spec: degenerate comment: /**/
    <<47, 42, 42, 47>>,
    \* spec: API comment: /** doc */
    <<47, 42, 42, 32, 100, 111, 99, 32, 42, 47>>,
    \* spec: unterminated: /* unterminated
    <<47, 42, 32, 117, 110, 116, 101, 114, 109, 105, 110, 97, 116, 101, 100>>,
    \* spec: line comment then keyword: // comment\nCHIP
    <<47, 47, 32, 99, 111, 109, 109, 101, 110, 116, 10, 67, 72, 73, 80>>,
    \* spec: wrong comment: / x
    <<47, 32, 120>>,
    \* spec: case variant: True
    <<84, 114, 117, 101>>,
    \* stars before the right delimiter: /* a **/
    <<47, 42, 32, 97, 32, 42, 42, 47>>,
    \* star inside: /* a*b */x
    <<47, 42, 32, 97, 42, 98, 32, 42, 47, 120>>,
    \* API comment, stars before the right delimiter: /** a **/;
    <<47, 42, 42, 32, 97, 32, 42, 42, 47, 59>>,
    \* a 2-byte letter, then ';': γ;
    <<206, 179, 59>>,
    \* four 2-byte letters, then a token: γθιπ x
    <<206, 179, 206, 184, 206, 185, 207, 128, 32, 120>>,
    \* a 2-byte letter inside an unclosed API comment: /**γ/
    <<47, 42, 42, 206, 179, 47>>,
    \* a 2-byte letter inside a closed comment: /* γ */x
    <<47, 42, 32, 206, 179, 32, 42, 47, 120>>,
    \* line comment ended by CR: // a\rx
    <<47, 47, 32, 97, 13, 120>>,
    \* case variants: chip Chip CHIPS In OUT1 parts TRUE False
    <<99, 104, 105, 112, 32, 67, 104, 105, 112, 32, 67, 72, 73, 80, 83, 32, 73, 110, 32, 79, 85, 84, 49, 32, 112, 97, 114, 116, 115, 32, 84, 82, 85, 69, 32, 70, 97, 108, 115, 101>>,
    \* words: true false truefalse true_ CLOCKED CLOCK
    <<116, 114, 117, 101, 32, 102, 97, 108, 115, 101, 32, 116, 114, 117, 101, 102, 97, 108, 115, 101, 32, 116, 114, 117, 101, 95, 32, 67, 76, 79, 67, 75, 69, 68, 32, 67, 76, 79, 67, 75>>,
    \* a 2-byte letter inside a closed API comment: /**γ*/
    <<47, 42, 42, 206, 179, 42, 47>>,
    \* a 2-byte sign that starts no token, then a letter: ×x
    <<195, 151, 120>>,
    \* a 2-byte letter, then a space: γ 
    <<206, 179, 32>>,
    \* two 2-byte letters apart: γ γ
    <<206, 179, 32, 206, 179>>,
    \* a 2-byte letter that ends a line comment: //γ\n
    <<47, 47, 206, 179, 10>>,
    \* a keyword continued by a 2-byte letter: INγ;
    <<73, 78, 206, 179, 59>>,
    \* wrong comment: / x
    <<47, 32, 120>>,
    \* lone dot: . .. .x
    <<46, 32, 46, 46, 32, 46, 120>>,
    \* digits, a 2-byte letter, a digit: 1γ2
    <<49, 206, 179, 50>>,
    \* a range between numbers: 2..8
    <<50, 46, 46, 56>>,
    \* a 2-byte letter and a word on a line that ends the input: γ x\n
    <<206, 179, 32, 120, 10>>,
    \* a lone leading byte, then a letter
    <<206, 120>> }

\* alphabets of the enumerated inputs
AlphaComment == {B.slash, B.star, B.a, B.lf, B.cr, B.sp}

AlphaToken == {B.dot, B.d1, B.x, B.star, B.slash, B.sp, B.semi}

AlphaUtf == {B.lead, B.cont, B.x, B.semi, B.sp, B.lf, B.slash, B.star}

AlphaWord == {73, 78, 110, B.us, B.d1, B.tab}

AlphaSign == {B.lead2, B.cont2, B.x, B.dot, B.slash, B.sp}

Inputs ==
    SeqsUpTo(AlphaComment, MaxLen) \cup SeqsUpTo(AlphaToken, MaxLen)
    \cup SeqsUpTo(AlphaUtf, MaxLen) \cup SeqsUpTo(AlphaWord, MaxLen)
    \cup SeqsUpTo(AlphaSign, MaxLen)
    \cup TestInputs \cup MoreInputs

Files == {"test.hdl"}

(***************************************************************************)
(* The state machine: one Scanner and the triples its Scan calls returned. *)
(***************************************************************************)
\* the fields of one Scanner and the tokens its Scan calls returned
VARIABLES filename, src, current, w, pos, line, col, start, tokLine, tokCol,
          errs, toks

\* the other Scanner instances of the program, each with the tokens it returned
VARIABLES peers

\* the lexer made by lex: the label its caller passed, the lexer struct, the
\* place of the goroutine that runs it, the token it is sending on the channel
\* tokens, the number of times the channel was closed, the consumer's mode
\* and the tokens the consumer received
VARIABLES label, lexer, goroutine, tokens, closed, consumer, received

\* positions of package token and the Less calls made on them, each with
\* its operands and its result
VARIABLES positions, less

scannerVars == <<filename, src, current, w, pos, line, col, start, tokLine,
                 tokCol, errs, toks>>

lexerVars == <<label, lexer, goroutine, tokens, closed, consumer, received>>

orderVars == <<positions, less>>

vars == <<scannerVars, peers, lexerVars, orderVars>>

\* the Scanner as a value
S == [filename |-> filename, src |-> src, current |-> current, w |-> w,
      pos |-> pos, line |-> line, col |-> col,
      start |-> start, tokLine |-> tokLine, tokCol |-> tokCol, errs |-> errs]

Becomes(s) ==
    /\ filename' = s.filename
    /\ src' = s.src
    /\ current' = s.current
    /\ w' = s.w
    /\ pos' = s.pos
    /\ line' = s.line
    /\ col' = s.col
    /\ start' = s.start
    /\ tokLine' = s.tokLine
    /\ tokCol' = s.tokCol
    /\ errs' = s.errs

\* the scanner s is the state
Is(s) ==
    /\ filename = s.filename
    /\ src = s.src
    /\ current = s.current
    /\ w = s.w
    /\ pos = s.pos
    /\ line = s.line
    /\ col = s.col
    /\ start = s.start
    /\ tokLine = s.tokLine
    /\ tokCol = s.tokCol
    /\ errs = s.errs

\* no lexer was made: lex was not called
\* no position compared
NoOrder ==
    /\ positions = <<>>
    /\ less = {}

NoLexer ==
    /\ label = ""
    /\ lexer = [file |-> "", input |-> <<>>, state |-> "nil",
                pos |-> 0, width |-> 0, start |-> 0]
    /\ goroutine = [at |-> "none", viaEmit |-> FALSE, ret |-> "nil"]
    /\ tokens = <<>>
    /\ closed = 0
    /\ consumer = "none"
    /\ received = <<>>

Init ==
    /\ \E f \in Files, bytes \in Inputs : Is(New(f, bytes))
    /\ toks = <<>>
    /\ peers = <<>>
    /\ NoLexer
    /\ NoOrder

\* number of EOF tokens returned so far
NumEOF == Cardinality({i \in 1..Len(toks) : toks[i].tok = "EOF"})

\* r is what the Scan call gives
Returns(r) ==
    /\ Becomes(r.s)
    /\ toks' = Append(toks, r.out)

\* one call of Scan
Scan ==
    /\ NumEOF < MaxTail
    /\ Returns(ScanOf(S))
    /\ UNCHANGED <<peers, lexerVars, orderVars>>

Next == Scan

Spec == Init /\ [][Next]_vars

(***************************************************************************)
(* Several Scanner instances: the Scanner of the variables above, a second *)
(* one made by New over the same label and bytes, and a third one over     *)
(* another input; their Scan calls interleave in any order.                *)
(***************************************************************************)
AlphaPeer == {B.lead, B.cont, B.slash, B.star, B.lf}

PeerInputs == SeqsUpTo(AlphaPeer, MaxLen)

\* the input of the third instance: x, a line end, ;
OtherInput == <<B.x, B.lf, B.semi>>

\* a Scanner instance as New returns it, with no token returned yet
Instance(s) == [s |-> s, toks |-> <<>>]

InitPeers ==
    /\ \E f \in Files, bytes \in PeerInputs :
          /\ Is(New(f, bytes))
          /\ peers = <<Instance(New(f, bytes)), Instance(New(f, OtherInput))>>
    /\ toks = <<>>
    /\ NoLexer
    /\ NoOrder

\* number of EOF tokens the instance i returned so far
PeerEOF(i) ==
    Cardinality({k \in 1..Len(peers[i].toks) : peers[i].toks[k].tok = "EOF"})

\* the instance p after a Scan call that gives r
Scanned(p, r) == [s |-> r.s, toks |-> Append(p.toks, r.out)]

\* a Scan call whose line counter is the one of the first Scanner
ScanPeerSharedLine(i) ==
    /\ PeerEOF(i) < MaxTail
    /\ peers' = [peers EXCEPT ![i] = Scanned(peers[i], ScanOf(peers[i].s))]
    /\ line' = peers'[i].s.line
    /\ UNCHANGED <<filename, src, current, w, pos, col, start, tokLine,
                   tokCol, errs, toks, lexerVars, orderVars>>

\* one call of Scan on the instance i
ScanPeer(i) ==
    /\ PeerEOF(i) < MaxTail
    /\ peers' = [peers EXCEPT ![i] = Scanned(peers[i], ScanOf(peers[i].s))]
    /\ UNCHANGED <<scannerVars, lexerVars, orderVars>>

NextPeers == Scan \/ \E i \in DOMAIN peers : ScanPeer(i)

SpecPeers == InitPeers /\ [][NextPeers]_vars


(***************************************************************************)
(* Reference notions the properties are stated with: the runes of the      *)
(* input as a forward UTF-8 decoder reads them.                            *)
(***************************************************************************)
\* the rune that starts at byte offset off, and its width
RuneAt(p, off) == DecodeRune(Slice(p, off, Len(p)))

RECURSIVE BoundariesFrom(_, _)
BoundariesFrom(p, off) ==
    IF off >= Len(p) THEN {Len(p)}
    ELSE {off} \cup BoundariesFrom(p, off + RuneAt(p, off)[2])

\* the byte offsets at which a rune of p starts, and Len(p)
Boundaries(p) == BoundariesFrom(p, 0)

ValidUTF8(p) ==
    \A off \in Boundaries(p) :
        off < Len(p) => ~(RuneAt(p, off)[1] = RuneError /\ RuneAt(p, off)[2] = 1)

\* number of runes of p
RuneCount(p) == Cardinality(Boundaries(p)) - 1

NTok == Len(toks)

LastTok == toks[NTok]

\* the ILLEGAL token of an unterminated block or API comment
IsUnterminated(t) == t.tok = "ILLEGAL" /\ IsMultiline(t.lit)

C3_EOFIsIdempotent ==
    [][(NTok > 0 /\ LastTok.tok = "EOF") =>
          /\ toks'[Len(toks')].tok = "EOF"
          /\ toks'[Len(toks')].lit = <<>>
          /\ toks'[Len(toks')].pos = LastTok.pos
          /\ pos' = pos /\ line' = line /\ col' = col /\ start' = start]_vars

C3_Witness ==
    /\ NTok >= 3
    /\ toks[NTok].tok = "EOF" /\ toks[NTok - 1].tok = "EOF"
    /\ toks[NTok - 2].tok # "EOF"
    /\ toks[NTok].pos = toks[NTok - 1].pos


(***************************************************************************)
(* More reference notions: what the input holds at a byte offset.          *)
(***************************************************************************)
\* the byte at 0-based offset k, eof past the end
ByteAt(p, k) == IF k < Len(p) THEN p[k + 1] ELSE eof

WhiteBytes == {B.sp, B.tab, B.cr, B.lf}

\* the byte offset where the previous call's token stopped
PrevEnd(i) == IF i = 1 THEN 0 ELSE toks[i - 1].end

\* token i starts on a rune of a validly encoded input
OnRune(i) == ValidUTF8(src) /\ toks[i].off \in Boundaries(src)

\* the runes that start one of the single-rune tokens
SimpleRunes ==
    {B.comma, B.semi, B.colon, B.ldel, B.rdel, B.lpar, B.rpar, B.lidx, B.ridx, B.eq}

\* the rune r starts no token
StartsNoToken(r) ==
    /\ ~isDigit(r) /\ ~IsLetter(r)
    /\ r \notin SimpleRunes \cup WhiteBytes \cup {B.dot, B.slash}

\* the rune at off is one that C2 is about
Malformed(p, off) ==
    \/ StartsNoToken(RuneAt(p, off)[1])
    \/ ByteAt(p, off) = B.dot /\ ByteAt(p, off + 1) # B.dot
    \/ ByteAt(p, off) = B.slash /\ ByteAt(p, off + 1) \notin {B.slash, B.star}

\* the first triple a fresh Scanner returns on the bytes of p from off on
FreshFrom(p, off) == ScanOf(New("fresh", Slice(p, off, Len(p)))).out

(***************************************************************************)
(* C2: when the first significant rune starts no token, is a '.' not       *)
(* followed by '.', or a '/' not followed by '/' or '*', Scan returns one  *)
(* ILLEGAL token whose literal is that single rune, consumes only that     *)
(* rune, and the next Scan call classifies what follows as a fresh token.  *)
(***************************************************************************)
C2_MalformedRuneIsOneIllegal ==
    \A i \in 1..NTok :
        (OnRune(i) /\ toks[i].off < Len(src) /\ Malformed(src, toks[i].off)) =>
            /\ toks[i].tok = "ILLEGAL"
            /\ toks[i].end = toks[i].off + RuneAt(src, toks[i].off)[2]
            /\ toks[i].lit = Slice(src, toks[i].off, toks[i].end)
            /\ i < NTok =>
                  /\ toks[i + 1].tok = FreshFrom(src, toks[i].end).tok
                  /\ toks[i + 1].lit = FreshFrom(src, toks[i].end).lit

(***************************************************************************)
(* C4: for every valid UTF-8 input, the literal of every non-EOF token is  *)
(* the byte slice of whole runes: it starts and ends on rune boundaries of *)
(* the input, also when multi-byte runes are followed by ASCII runes.      *)
(***************************************************************************)
C4_LiteralOnRuneBoundaries ==
    ValidUTF8(src) =>
        \A i \in 1..NTok :
            toks[i].tok # "EOF" =>
                /\ toks[i].off \in Boundaries(src)
                /\ toks[i].end \in Boundaries(src)
                /\ toks[i].off < toks[i].end
                /\ toks[i].lit = Slice(src, toks[i].off, toks[i].end)

(***************************************************************************)
(* C5: the 1-indexed column of every returned token is 1 plus the number   *)
(* of runes (not bytes) between the last preceding '\n' (or the start of   *)
(* the input) and the token's first rune.                                  *)
(***************************************************************************)
\* the offset after the last '\n' before off, 0 when there is none
LineStart(p, off) ==
    IF \E k \in 1..off : p[k] = B.lf
    THEN CHOOSE k \in 1..off : p[k] = B.lf /\ \A j \in (k + 1)..off : p[j] # B.lf
    ELSE 0

C5_ColumnCountsRunes ==
    ValidUTF8(src) =>
        \A i \in 1..NTok :
            Column(toks[i].pos) =
                1 + RuneCount(Slice(src, LineStart(src, toks[i].off), toks[i].off))

(***************************************************************************)
(* C6: before a token a Scan call skips only space, tab, CR and LF; every  *)
(* other byte of the input belongs to the literal of exactly one returned  *)
(* token, in source order; EOF is returned only at the end of the input,   *)
(* so the first Scan returns EOF only on an empty or whitespace-only input.*)
(***************************************************************************)
C6_OnlyWhitespaceIsSkipped ==
    ValidUTF8(src) =>
        \A i \in 1..NTok :
            /\ PrevEnd(i) <= toks[i].off
            /\ \A k \in PrevEnd(i)..(toks[i].off - 1) : ByteAt(src, k) \in WhiteBytes
            /\ toks[i].tok # "EOF" =>
                  /\ toks[i].off < toks[i].end
                  /\ toks[i].lit = Slice(src, toks[i].off, toks[i].end)
            /\ toks[i].tok = "EOF" => toks[i].off = Len(src)


(***************************************************************************)
(* C7: for a comment opened by "/*" or "/**", Scan returns one COMMENT     *)
(* whose literal runs from the opening '/' through the first "*/" that     *)
(* follows the opening delimiter, also when '*' runes precede that "*/" or *)
(* occur inside; the next token starts right after the closing '/'.        *)
(***************************************************************************)
\* "*/" is at offset e
RightDelimAt(p, e) == ByteAt(p, e) = B.star /\ ByteAt(p, e + 1) = B.slash

\* the offsets, past the opening "/*" at off, where a "*/" is
RightDelims(p, off) == {e \in (off + 2)..(Len(p) - 2) : RightDelimAt(p, e)}

\* the first of them
FirstRight(p, off) ==
    CHOOSE e \in RightDelims(p, off) : \A f \in RightDelims(p, off) : e <= f

OpensBlock(p, off) == ByteAt(p, off) = B.slash /\ ByteAt(p, off + 1) = B.star

C7_BlockCommentEndsAtFirstRight ==
    \A i \in 1..NTok :
        (OnRune(i) /\ OpensBlock(src, toks[i].off)
            /\ RightDelims(src, toks[i].off) # {}) =>
            /\ toks[i].tok = "COMMENT"
            /\ toks[i].end = FirstRight(src, toks[i].off) + 2
            /\ toks[i].lit = Slice(src, toks[i].off, toks[i].end)

(***************************************************************************)
(* C8: a COMMENT is an API comment (Comment.IsAPI) if and only if its left *)
(* delimiter is exactly "/**" and it is not the degenerate "/**/"; the     *)
(* sources "/* x */", "/**/" and "/** doc */" yield exactly one COMMENT,   *)
(* with IsAPI false, false and true.                                       *)
(***************************************************************************)
Degenerate == <<B.slash, B.star, B.star, B.slash>>

C8_APIIffLeftDelimiter ==
    \A i \in 1..NTok :
        toks[i].tok = "COMMENT" =>
            (IsAPI(toks[i].lit) <=>
                (HasPrefix(toks[i].lit, <<B.slash, B.star, B.star>>)
                    /\ toks[i].lit # Degenerate))

(***************************************************************************)
(* C9: a "//" comment ends at the first CR or LF or at end of input; when  *)
(* it reaches end of input without CR or LF, Scan returns it as COMMENT    *)
(* (never ILLEGAL) and the following Scan call returns EOF.                *)
(***************************************************************************)
OpensLine(p, off) == ByteAt(p, off) = B.slash /\ ByteAt(p, off + 1) = B.slash

\* the offsets, past the opening "//" at off, where a CR or LF is
EOLs(p, off) == {e \in (off + 2)..(Len(p) - 1) : ByteAt(p, e) \in {B.cr, B.lf}}

FirstEOL(p, off) == CHOOSE e \in EOLs(p, off) : \A f \in EOLs(p, off) : e <= f

C9_LineCommentEndsAtEOL ==
    \A i \in 1..NTok :
        (OnRune(i) /\ OpensLine(src, toks[i].off)) =>
            /\ toks[i].tok = "COMMENT"
            /\ toks[i].lit = Slice(src, toks[i].off, toks[i].end)
            /\ EOLs(src, toks[i].off) # {} =>
                  toks[i].end \in {FirstEOL(src, toks[i].off),
                                   FirstEOL(src, toks[i].off) + 1}
            /\ EOLs(src, toks[i].off) = {} =>
                  /\ toks[i].end = Len(src)
                  /\ i < NTok => toks[i + 1].tok = "EOF"

(***************************************************************************)
(* C10: a maximal run of letters, digits and '_' that starts with a letter *)
(* is returned as DECL, IN, OUT, PARTS or CLOCKED if and only if it is     *)
(* spelled exactly "CHIP", "IN", "OUT", "PARTS" or "CLOCKED", as TRUE or   *)
(* FALSE if and only if it is exactly "true" or "false", and as IDENT in   *)
(* every other case, case variants included.                               *)
(***************************************************************************)
RECURSIVE WordEnd(_, _)
\* the offset where the run of letters, digits and '_' that holds off stops
WordEnd(p, off) ==
    IF off < Len(p) /\ isAlphanumeric(RuneAt(p, off)[1])
    THEN WordEnd(p, off + RuneAt(p, off)[2])
    ELSE off

\* the kind the claim gives to the spelling wd
KindOfWord(wd) ==
    IF wd = W.chip THEN "DECL"
    ELSE IF wd = W.in THEN "IN"
    ELSE IF wd = W.out THEN "OUT"
    ELSE IF wd = W.parts THEN "PARTS"
    ELSE IF wd = W.clocked THEN "CLOCKED"
    ELSE IF wd = W.true THEN "TRUE"
    ELSE IF wd = W.false THEN "FALSE"
    ELSE "IDENT"

C10_WordsAreClassifiedBySpelling ==
    \A i \in 1..NTok :
        (OnRune(i) /\ toks[i].off < Len(src)
            /\ IsLetter(RuneAt(src, toks[i].off)[1])) =>
            /\ toks[i].end = WordEnd(src, toks[i].off)
            /\ toks[i].lit = Slice(src, toks[i].off, toks[i].end)
            /\ toks[i].tok = KindOfWord(toks[i].lit)


(***************************************************************************)
(* C11: when the first significant rune is an ASCII digit the token is     *)
(* NUMBER and its literal is the maximal run of ASCII digits that starts   *)
(* there; a '.' after the digits is never part of the number.              *)
(***************************************************************************)
RECURSIVE DigitEnd(_, _)
\* the offset where the run of ASCII digits that holds off stops
DigitEnd(p, off) == IF isDigit(ByteAt(p, off)) THEN DigitEnd(p, off + 1) ELSE off

C11_NumberIsMaximalDigitRun ==
    \A i \in 1..NTok :
        (OnRune(i) /\ isDigit(ByteAt(src, toks[i].off))) =>
            /\ toks[i].tok = "NUMBER"
            /\ toks[i].end = DigitEnd(src, toks[i].off)
            /\ toks[i].lit = Slice(src, toks[i].off, toks[i].end)

(***************************************************************************)
(* C12: the 1-indexed line of every returned token is 1 plus the number of *)
(* '\n' before the token's first rune; the column restarts at 1 after each *)
(* '\n'; a tab or a CR advances the column by one and never changes the    *)
(* line.                                                                   *)
(***************************************************************************)
\* number of '\n' in p
CountLF(p) == Cardinality({k \in 1..Len(p) : p[k] = B.lf})

\* only ASCII bytes between the start of the line of off and off
AsciiBefore(p, off) == \A k \in LineStart(p, off)..(off - 1) : ByteAt(p, k) < RuneSelf

C12_LineCountsLF ==
    ValidUTF8(src) =>
        \A i \in 1..NTok :
            /\ Line(toks[i].pos) = 1 + CountLF(Slice(src, 0, toks[i].off))
            /\ AsciiBefore(src, toks[i].off) =>
                  Column(toks[i].pos) = 1 + toks[i].off - LineStart(src, toks[i].off)


(***************************************************************************)
(* C13: over the Scan calls on one Scanner the returned positions never    *)
(* decrease in (line, column) order, and they increase strictly between    *)
(* two successive tokens that are not EOF.                                 *)
(***************************************************************************)
C13_PositionsIncrease ==
    \A i \in 2..NTok :
        /\ ~Less(toks[i].pos, toks[i - 1].pos)
        /\ (toks[i - 1].tok # "EOF" /\ toks[i].tok # "EOF") =>
              Less(toks[i - 1].pos, toks[i].pos)

\* three tokens on two lines, the last one in a smaller column than the first
C13_Witness ==
    /\ NTok >= 3
    /\ toks[3].tok # "EOF"
    /\ toks[1].pos.line = toks[2].pos.line
    /\ toks[3].pos.line > toks[2].pos.line
    /\ toks[3].pos.column < toks[2].pos.column

(***************************************************************************)
(* C14: once the input is scanned to EOF the error list holds exactly one  *)
(* error for each invalid UTF-8 byte sequence of the input, at the line    *)
(* and column of that sequence, and none for a validly encoded rune.       *)
(***************************************************************************)
\* the offsets of the invalid byte sequences of p
InvalidSet(p) ==
    {off \in Boundaries(p) :
        off < Len(p) /\ RuneAt(p, off)[1] = RuneError /\ RuneAt(p, off)[2] = 1}

\* the offset of the k-th invalid byte sequence of p
KthInvalid(p, k) ==
    CHOOSE off \in InvalidSet(p) :
        Cardinality({o \in InvalidSet(p) : o < off}) = k - 1

\* the error at index k is at the place of the k-th invalid byte sequence
ErrorAt(k, off) ==
    /\ errs[k].file = filename
    /\ errs[k].line = CountLF(Slice(src, 0, off))
    /\ errs[k].column \in {off - LineStart(src, off),
                           RuneCount(Slice(src, LineStart(src, off), off))}

C14_OneErrorPerInvalidSequence ==
    (NTok > 0 /\ LastTok.tok = "EOF") =>
        /\ Len(errs) = Cardinality(InvalidSet(src))
        /\ \A k \in 1..Len(errs) : ErrorAt(k, KthInvalid(src, k))

(***************************************************************************)
(* C16: for every input, valid UTF-8 or not, and after any number of Scan  *)
(* calls, 0 <= start <= pos <= len(src): no slice of the buffer is taken   *)
(* out of range.                                                           *)
(***************************************************************************)
C16_OffsetsInRange ==
    /\ 0 <= start
    /\ start <= pos
    /\ pos <= Len(src)
    /\ \A i \in 1..NTok :
          /\ 0 <= toks[i].off
          /\ toks[i].off <= toks[i].end
          /\ toks[i].end <= Len(src)

\* an input that is not valid UTF-8 was scanned to its end, past a token
\* that stops at the end of input
C16_Witness ==
    /\ ~ValidUTF8(src)
    /\ NTok >= 2
    /\ LastTok.tok = "EOF"
    /\ toks[NTok - 1].tok # "EOF"
    /\ toks[NTok - 1].end = Len(src)
    /\ pos = Len(src)


spaceChars == {B.sp, B.tab, B.cr, B.lf}

\* the valid set "0123456789" of lexInteger
Digits == {B.d0 + k : k \in 0..9}

\* unicode.IsDigit on the runes of one or two bytes: the decimal digits of
\* ASCII, Arabic-Indic, Extended Arabic-Indic and NKo
IsDigit(r) ==
    \/ r >= 48 /\ r <= 57
    \/ r >= 1632 /\ r <= 1641
    \/ r >= 1776 /\ r <= 1785
    \/ r >= 1984 /\ r <= 1993

\* the keywords map of the lexer
lexKeywords == { <<W.chip, "tokenDecl">>, <<W.in, "tokenIN">>,
                 <<W.out, "tokenOUT">>, <<W.parts, "tokenPARTS">>,
                 <<W.clocked, "tokenCLOCKED">> }

\* the rune that the call l.next() returns
rune(l) ==
    IF l.pos >= Len(l.input) THEN eof
    ELSE DecodeRune(Slice(l.input, l.pos, Len(l.input)))[1]

\* the width utf8.DecodeRuneInString gives at pos
widthAt(l) == DecodeRune(Slice(l.input, l.pos, Len(l.input)))[2]

\* lexer.next: the lexer after the call
lexNext(l) ==
    IF l.pos >= Len(l.input) THEN [l EXCEPT !.width = 0]
    ELSE [l EXCEPT !.width = widthAt(l), !.pos = l.pos + widthAt(l)]

backup(l) == [l EXCEPT !.pos = l.pos - l.width]

ignore(l) == [l EXCEPT !.start = l.pos]

\* strings.Count(s, "\n")
CountNewlines(s) == Cardinality({k \in 1..Len(s) : s[k] = B.lf})

\* strings.LastIndex(s, "\n"): -1 when s has none
LastNewline(s) ==
    IF \E k \in 1..Len(s) : s[k] = B.lf
    THEN (CHOOSE k \in 1..Len(s) : s[k] = B.lf /\ \A j \in (k + 1)..Len(s) : s[j] # B.lf) - 1
    ELSE -1

\* utf8.RuneCountInString
RuneCountInString(s) == RuneCount(s)

lineNumber(l) == 1 + CountNewlines(Slice(l.input, 0, l.start))

\* a columnNumber that counts the bytes up to start
columnNumberBytes(l) ==
    1 + Len(Slice(l.input, LastNewline(Slice(l.input, 0, l.start)) + 1, l.start))

columnNumber(l) ==
    1 + RuneCountInString(
            Slice(l.input, LastNewline(Slice(l.input, 0, l.start)) + 1, l.start))

\* the struct token
token(typ, file, ln, column, val) ==
    [typ |-> typ, file |-> file, line |-> ln, column |-> column, val |-> val]

\* what a state function does up to its return: the lexer it leaves, the
\* token it sends on the channel if any, whether the send is the one of
\* emit (which moves start once the token is taken) and the state it returns
Outcome(l, send, viaEmit, state) ==
    [l |-> l, send |-> send, viaEmit |-> viaEmit, state |-> state]

\* return state, nothing sent
goto(l, state) == Outcome(l, <<>>, FALSE, state)

\* l.emit(t), then return state
emit(l, t, state) ==
    Outcome(l,
            <<token(t, l.file, lineNumber(l), columnNumber(l),
                    Slice(l.input, l.start, l.pos))>>,
            TRUE, state)

\* an errorf after which the lexer goes on from lexBase
errorfGoOn(l, format, arg) ==
    Outcome(l,
            <<token("tokenError", l.file, lineNumber(l), columnNumber(l),
                    [format |-> format, arg |-> arg])>>,
            FALSE, "lexBase")

\* return l.errorf(format, arg)
errorf(l, format, arg) ==
    Outcome(l,
            <<token("tokenError", l.file, lineNumber(l), columnNumber(l),
                    [format |-> format, arg |-> arg])>>,
            FALSE, "nil")

RECURSIVE acceptRun(_, _)
acceptRun(valid, l) ==
    IF rune(l) \in valid THEN acceptRun(valid, lexNext(l))
    ELSE backup(lexNext(l))

\* the simple symbols of lexBase
lexSimple(r) ==
    CASE r = B.ldel -> "tokenLeftDelim"
      [] r = B.rdel -> "tokenRightDelim"
      [] r = B.lpar -> "tokenLeftPar"
      [] r = B.rpar -> "tokenRightPar"
      [] r = B.lidx -> "tokenLeftIndex"
      [] r = B.ridx -> "tokenRightIndex"
      [] r = B.colon -> "tokenColumn"
      [] r = B.comma -> "tokenComma"
      [] r = B.semi -> "tokenSemiCol"
      [] r = B.eq -> "tokenPipe"
      [] OTHER -> "none"

\* lexBase, lines 222-228: s is the rune read after a '.'
lexDot(s, l) ==
    IF s = B.dot THEN emit(l, "tokenRange", "lexBase")
    ELSE errorf(l, "Unexpected character %q after '.'", s)

\* lexBase, lines 193-244: the switch on the rune r that next returned
lexSwitch(r, l) ==
    IF r = B.slash THEN goto(backup(l), "lexComment")
    ELSE IF lexSimple(r) # "none" THEN emit(l, lexSimple(r), "lexBase")
    ELSE IF r = B.dot THEN lexDot(rune(l), lexNext(l))
    ELSE IF IsDigit(r) THEN goto(backup(l), "lexInteger")
    ELSE IF IsLetter(r) THEN goto(backup(l), "lexIdentifier")
    ELSE IF r = eof THEN emit(l, "tokenEOF", "nil")
    ELSE errorf(l, "Unexpected character %q", r)

\* lexBase, lines 189-193, on a lexer that has skipped the spaces
lexRead(l) == lexSwitch(rune(l), lexNext(l))

lexBase(l) == lexRead(ignore(acceptRun(spaceChars, l)))

\* lexIdentifier, lines 257-267: the type of the word
\* a classification that takes "true" and "false" for identifiers
wordTypeNoBool(wd) ==
    IF \E k \in lexKeywords : k[1] = wd
    THEN (CHOOSE k \in lexKeywords : k[1] = wd)[2]
    ELSE "tokenIdentifier"

wordType(wd) ==
    IF \E k \in lexKeywords : k[1] = wd
    THEN (CHOOSE k \in lexKeywords : k[1] = wd)[2]
    ELSE IF wd = W.true THEN "tokenTrue"
    ELSE IF wd = W.false THEN "tokenFalse"
    ELSE "tokenIdentifier"

RECURSIVE lexIdentifier(_)
lexIdentifier(l) ==
    IF IsLetter(rune(l)) \/ IsDigit(rune(l)) THEN lexIdentifier(lexNext(l))
    ELSE emit(backup(lexNext(l)),
              wordType(Slice(l.input, l.start, backup(lexNext(l)).pos)),
              "lexBase")

lexInteger(l) == emit(acceptRun(Digits, l), "tokenNumber", "lexBase")


\* lexComment, line 309: the left delimiter read so far
leftDelim(l) == Slice(l.input, l.start, l.pos)

RECURSIVE lineComment(_)
\* lexComment, LOOP1: the runes of a // comment
lineCommentCase(r, l) ==
    IF r = eof THEN emit(l, "tokenEOF", "nil")
    ELSE IF r \in {B.cr, B.lf} THEN goto(ignore(l), "lexBase")
    ELSE lineComment(l)

lineComment(l) == lineCommentCase(rune(l), lexNext(l))

RECURSIVE blockComment(_, _)
\* lexComment, lines 345-354: r is the rune read after a '*'
blockStar(r, l, delim) ==
    IF r = B.slash
    THEN IF delim = <<B.slash, B.star>> THEN goto(ignore(l), "lexBase")
         ELSE emit(l, "tokenCommentAPI", "lexBase")
    ELSE blockComment(l, delim)

\* lexComment, LOOP2: the runes of a comment opened by delim
blockCase(r, l, delim) ==
    IF r = eof THEN errorf(l, "Unclosed comment", eof)
    ELSE IF r = B.star THEN blockStar(rune(l), lexNext(l), delim)
    ELSE blockComment(l, delim)

blockComment(l, delim) == blockCase(rune(l), lexNext(l), delim)

\* lexComment, lines 309-358: the comment past its left delimiter
commentBody(l) ==
    IF leftDelim(l) = <<B.slash, B.slash>> THEN lineComment(l)
    ELSE blockComment(l, leftDelim(l))

\* lexComment, lines 296-301
commentFourth(fourth, l) ==
    IF fourth = B.slash THEN goto(ignore(l), "lexBase")
    ELSE commentBody(backup(l))

\* lexComment, lines 290-302
commentThird(third, l) ==
    IF third # B.star THEN commentBody(backup(l))
    ELSE commentFourth(rune(l), lexNext(l))

\* lexComment, lines 283-306
commentSecond(second, l) ==
    IF second = B.slash THEN commentBody(l)
    ELSE IF second = B.star THEN commentThird(rune(l), lexNext(l))
    ELSE errorf(l, "Unexpected character %q after '/'", second)

\* lexComment on a lexer that has read the '/'
commentFirst(l) == commentSecond(rune(l), lexNext(l))

lexComment(l) == commentFirst(lexNext(l))

\* the call l.state(l)
stateLex(l) ==
    CASE l.state = "lexBase" -> lexBase(l)
      [] l.state = "lexIdentifier" -> lexIdentifier(l)
      [] l.state = "lexInteger" -> lexInteger(l)
      [] l.state = "lexComment" -> lexComment(l)

\* lex: the lexer struct it builds
lex(file, input) ==
    [file |-> "", input |-> input, state |-> "nil",
     pos |-> 0, width |-> 0, start |-> 0]


(***************************************************************************)
(* The lexer as a state machine: the goroutine started by lex runs the     *)
(* state functions; a send on the unbuffered channel waits for a receive   *)
(* of the consumer, which calls nextToken, may call drain, and may stop    *)
(* receiving.                                                              *)
(***************************************************************************)
\* the most tokens the consumer receives
MaxRecv == 12

\* the inputs of TestLex and TestPosition
LexTestInputs == {
    \* keywords: CHIP IN OUT PARTS CLOCKED
    <<67, 72, 73, 80, 32, 73, 78, 32, 79, 85, 84, 32, 80, 65, 82, 84, 83, 32, 67, 76, 79, 67, 75, 69, 68>>,
    \* decl: CHIP And {
    <<67, 72, 73, 80, 32, 65, 110, 100, 32, 123>>,
    \* indexing: a[16] b[2..8]
    <<97, 91, 49, 54, 93, 32, 98, 91, 50, 46, 46, 56, 93>>,
    \* simple comments: // comment\nCHIP\n//another one\rNot/**/// end
    <<47, 47, 32, 99, 111, 109, 109, 101, 110, 116, 10, 67, 72, 73, 80, 10, 47, 47, 97, 110, 111, 116, 104, 101, 114, 32, 111, 110, 101, 13, 78, 111, 116, 47, 42, 42, 47, 47, 47, 32, 101, 110, 100>>,
    \* multline comments: /* CHIP *//** This is a test */CHIP
    <<47, 42, 32, 67, 72, 73, 80, 32, 42, 47, 47, 42, 42, 32, 84, 104, 105, 115, 32, 105, 115, 32, 97, 32, 116, 101, 115, 116, 32, 42, 47, 67, 72, 73, 80>>,
    \* booleans: a=true, b=false
    <<97, 61, 116, 114, 117, 101, 44, 32, 98, 61, 102, 97, 108, 115, 101>>,
    \* error base: CHIP *
    <<67, 72, 73, 80, 32, 42>>,
    \* error dot: 1.2
    <<49, 46, 50>>,
    \* error /: / this is an error
    <<47, 32, 116, 104, 105, 115, 32, 105, 115, 32, 97, 110, 32, 101, 114, 114, 111, 114>>,
    \* error unclosed 1: /* unclosed comment\nsecond line
    <<47, 42, 32, 117, 110, 99, 108, 111, 115, 101, 100, 32, 99, 111, 109, 109, 101, 110, 116, 10, 115, 101, 99, 111, 110, 100, 32, 108, 105, 110, 101>>,
    \* errpr unclosed 2: /** Another\nunclosed\ncomment
    <<47, 42, 42, 32, 65, 110, 111, 116, 104, 101, 114, 10, 117, 110, 99, 108, 111, 115, 101, 100, 10, 99, 111, 109, 109, 101, 110, 116>>,
    \* positions: CHIP And {\n\tIN a, b;\n\tOUT out;
    <<67, 72, 73, 80, 32, 65, 110, 100, 32, 123, 10, 9, 73, 78, 32, 97, 44, 32, 98, 59, 10, 9, 79, 85, 84, 32, 111, 117, 116, 59>>,
    \* position error: CHIP And {\n\t*}
    <<67, 72, 73, 80, 32, 65, 110, 100, 32, 123, 10, 9, 42, 125>> }

LexMoreInputs == {
    \* an API comment closed by **/: /** a **/
    <<47, 42, 42, 32, 97, 32, 42, 42, 47>>,
    \* a comment closed by **/: /* a **/x
    <<47, 42, 32, 97, 32, 42, 42, 47, 120>>,
    \* a comment of stars: /****/
    <<47, 42, 42, 42, 42, 47>>,
    \* an API comment, then a word: /***/x
    <<47, 42, 42, 42, 47, 120>>,
    \* an API comment with a 2-byte letter: /**γ*/
    <<47, 42, 42, 206, 179, 42, 47>>,
    \* a 2-byte letter in a word: INγ;
    <<73, 78, 206, 179, 59>>,
    \* a // comment up to the end of input: x//a
    <<120, 47, 47, 97>>,
    \* an Arabic-Indic digit: 1٣
    <<49, 217, 163>>,
    \* the empty comment, then a word: /**/x
    <<47, 42, 42, 47, 120>>,
    \* a 2-byte letter on the second line, then an unexpected rune: x\nγ *
    <<120, 10, 206, 179, 32, 42>>,
    \* an Arabic-Indic digit alone
    <<217, 163>>,
    \* a comment closed by **/, then a keyword: /* a **/CHIP
    <<47, 42, 32, 97, 32, 42, 42, 47, 67, 72, 73, 80>> }

AlphaLexComment == {B.slash, B.star, B.x, B.lf}

AlphaLexToken == {B.dot, B.d1, B.x, B.sp, B.semi}

AlphaLexUtf == {B.lead, B.cont, B.x, B.slash, B.star}

LexInputs ==
    SeqsUpTo(AlphaLexComment, MaxLen) \cup SeqsUpTo(AlphaLexToken, MaxLen)
        \cup SeqsUpTo(AlphaLexUtf, MaxLen) \cup LexTestInputs \cup LexMoreInputs

\* the label of a test of TestLex
LexFiles == {"decl"}

\* where the goroutine is: at the start of run, in its loop, in a send (of
\* emit or of errorf, in a state function that will return ret), or done
At(at, viaEmit, ret) == [at |-> at, viaEmit |-> viaEmit, ret |-> ret]

\* l := lex(file, input): the lexer is made and its goroutine started
InitLex ==
    /\ \E file \in LexFiles, input \in LexInputs :
          /\ label = file
          /\ lexer = lex(file, input)
          /\ Is(New(file, input))
    /\ goroutine = At("start", FALSE, "nil")
    /\ tokens = <<>>
    /\ closed = 0
    /\ consumer = "nextToken"
    /\ received = <<>>
    /\ toks = <<>>
    /\ peers = <<>>
    /\ NoOrder

\* run: l.state = lexBase
RunStart ==
    /\ goroutine.at = "start"
    /\ lexer' = [lexer EXCEPT !.state = "lexBase"]
    /\ goroutine' = At("loop", FALSE, "nil")
    /\ UNCHANGED <<label, tokens, closed, consumer, received, scannerVars,
                   peers, orderVars>>

\* the state function gives o: it returned, or it is in a send
Gives(o) ==
    IF o.send = <<>>
    THEN /\ lexer' = [o.l EXCEPT !.state = o.state]
         /\ UNCHANGED <<goroutine, tokens>>
    ELSE /\ lexer' = o.l
         /\ tokens' = o.send
         /\ goroutine' = At("send", o.viaEmit, o.state)

\* run: l.state = l.state(l), up to the return of the state function or to
\* its send on the channel
Step ==
    /\ goroutine.at = "loop"
    /\ lexer.state # "nil"
    /\ Gives(stateLex(lexer))
    /\ UNCHANGED <<label, closed, consumer, received, scannerVars, peers, orderVars>>

\* a receive that also takes the token of a sender whose consumer stopped
ReceiveOrCancel ==
    /\ goroutine.at = "send"
    /\ consumer \in {"nextToken", "drain", "stopped"}
    /\ Len(received) < MaxRecv
    /\ received' = Append(received,
                          [tok |-> tokens[1], off |-> lexer.start, end |-> lexer.pos])
    /\ tokens' = <<>>
    /\ lexer' = [lexer EXCEPT !.state = goroutine.ret,
                              !.start = IF goroutine.viaEmit THEN lexer.pos
                                        ELSE lexer.start]
    /\ goroutine' = At("loop", FALSE, "nil")
    /\ consumer' = IF consumer = "nextToken"
                      /\ tokens[1].typ \in {"tokenEOF", "tokenError"}
                   THEN "done" ELSE consumer
    /\ UNCHANGED <<label, closed, scannerVars, peers, orderVars>>

\* the send of the goroutine meets a receive of the consumer (nextToken, or
\* the loop of drain): the token passes, emit moves start, the state function
\* returns; a consumer that calls nextToken is done after tokenEOF or
\* tokenError
Receive ==
    /\ goroutine.at = "send"
    /\ consumer \in {"nextToken", "drain"}
    /\ Len(received) < MaxRecv
    /\ received' = Append(received,
                          [tok |-> tokens[1], off |-> lexer.start, end |-> lexer.pos])
    /\ tokens' = <<>>
    /\ lexer' = [lexer EXCEPT !.state = goroutine.ret,
                              !.start = IF goroutine.viaEmit THEN lexer.pos
                                        ELSE lexer.start]
    /\ goroutine' = At("loop", FALSE, "nil")
    /\ consumer' = IF consumer = "nextToken"
                      /\ tokens[1].typ \in {"tokenEOF", "tokenError"}
                   THEN "done" ELSE consumer
    /\ UNCHANGED <<label, closed, scannerVars, peers, orderVars>>

\* run: the loop ends at the nil state, close(l.tokens)
Close ==
    /\ goroutine.at = "loop"
    /\ lexer.state = "nil"
    /\ closed' = closed + 1
    /\ goroutine' = At("done", FALSE, "nil")
    /\ UNCHANGED <<label, lexer, tokens, consumer, received, scannerVars,
                   peers, orderVars>>

\* the consumer stops calling nextToken before tokenEOF or tokenError
StopReceiving ==
    /\ consumer = "nextToken"
    /\ consumer' = "stopped"
    /\ UNCHANGED <<label, lexer, goroutine, tokens, closed, received,
                   scannerVars, peers, orderVars>>

\* the consumer calls drain
Drain ==
    /\ consumer = "nextToken"
    /\ consumer' = "drain"
    /\ UNCHANGED <<label, lexer, goroutine, tokens, closed, received,
                   scannerVars, peers, orderVars>>

\* drain returns: its loop ends on the closed channel
Drained ==
    /\ consumer = "drain"
    /\ closed > 0
    /\ consumer' = "done"
    /\ UNCHANGED <<label, lexer, goroutine, tokens, closed, received,
                   scannerVars, peers, orderVars>>

NextLex ==
    \/ RunStart
    \/ Step
    \/ Receive
    \/ Close
    \/ StopReceiving
    \/ Drain
    \/ Drained

SpecLex == InitLex /\ [][NextLex]_vars

\* a step of the goroutine; its steps are sequential, at most one of them
\* is possible in a state
Producer == RunStart \/ Step \/ Receive \/ Close


(***************************************************************************)
(* Notions the lexer claims are stated with.                               *)
(***************************************************************************)
Terminal == {"tokenEOF", "tokenError"}

\* the tokens the goroutine has sent or is sending, in order
Sent == [i \in 1..Len(received) |-> received[i].tok] \o tokens

\* the goroutine can take a step
ProducerCanMove == ENABLED Producer

(***************************************************************************)
(* C17, as claimed: when the consumer stops receiving before the terminal  *)
(* token, the goroutine of the lexer observes it and exits; it never stays *)
(* blocked forever in a send on the channel: a goroutine that is in a send *)
(* when the consumer has stopped has a step to take.                       *)
(***************************************************************************)
C17_StoppedProducerCanMove ==
    (consumer = "stopped" /\ goroutine.at = "send") => ProducerCanMove

(***************************************************************************)
(* C17, amended: when the consumer has stopped receiving while the         *)
(* goroutine is in a send, the goroutine is blocked in that send: it has   *)
(* no step to take, and as the consumer receives no more it never has one; *)
(* the channel is not closed.                                              *)
(***************************************************************************)
C17_StoppedProducerIsBlocked ==
    (consumer = "stopped" /\ goroutine.at = "send") =>
        /\ ~ProducerCanMove
        /\ closed = 0
        /\ Len(tokens) = 1

\* the consumer took a token and stopped; the goroutine is sending the next
\* token, which is not a terminal one
C17_Witness ==
    /\ consumer = "stopped"
    /\ goroutine.at = "send"
    /\ Len(received) >= 1
    /\ tokens[1].typ \notin Terminal

(***************************************************************************)
(* C18: the goroutine sends at most one tokenEOF or tokenError, that token *)
(* is the last one it sends, it then closes the channel exactly once, and  *)
(* after the close it neither sends nor closes.                            *)
(***************************************************************************)
\* a terminal token is the last token sent; the channel is closed at most
\* once, after a terminal token was received, by a goroutine that is done
TerminalIsLast ==
    /\ \A i \in 1..(Len(Sent) - 1) : Sent[i].typ \notin Terminal
    /\ closed <= 1
    /\ closed = 1 =>
          /\ tokens = <<>>
          /\ goroutine.at = "done"
          /\ Len(received) >= 1
          /\ received[Len(received)].tok.typ \in Terminal

\* once the channel is closed the goroutine does nothing more
NothingAfterClose ==
    closed = 1 => UNCHANGED <<closed, tokens, received, goroutine, lexer>>

C18_TerminalThenClose == [](TerminalIsLast) /\ [][NothingAfterClose]_vars

\* "1.2": tokenNumber, tokenError, and the channel is closed
C18_Witness ==
    /\ closed = 1
    /\ Len(received) = 2
    /\ received[1].tok.typ = "tokenNumber"
    /\ received[2].tok.typ = "tokenError"
    /\ lexer.input = <<B.d1, B.dot, B.d2>>

(***************************************************************************)
(* C19: a closed comment whose left delimiter is "/**", "/**/" apart, is   *)
(* sent as one tokenCommentAPI whose value is the whole comment with both  *)
(* delimiters; a "//" comment ended by a CR or LF, a closed "/*" comment   *)
(* and "/**/" give no token: no token starts where such a comment starts.  *)
(***************************************************************************)
\* the left delimiter at off is "/**" and it is not "/**/"
OpensAPI(p, off) ==
    /\ OpensBlock(p, off)
    /\ ByteAt(p, off + 2) = B.star
    /\ ByteAt(p, off + 3) # B.slash

\* the offsets of the "*/" past the left delimiter "/**" at off
APIRights(p, off) == {e \in RightDelims(p, off) : e >= off + 3}

FirstAPIRight(p, off) ==
    CHOOSE e \in APIRights(p, off) : \A f \in APIRights(p, off) : e <= f

\* a closed API comment starts at off
ClosedAPI(p, off) == OpensAPI(p, off) /\ APIRights(p, off) # {}

\* a comment that gives no token starts at off
SilentComment(p, off) ==
    \/ OpensLine(p, off) /\ EOLs(p, off) # {}
    \/ OpensBlock(p, off) /\ ByteAt(p, off + 2) # B.star /\ RightDelims(p, off) # {}
    \/ off + 4 <= Len(p) /\ Slice(p, off, off + 4) = Degenerate

\* the token r is the closed API comment that starts where r starts
IsWholeAPIComment(r, p) ==
    /\ r.tok.typ = "tokenCommentAPI"
    /\ r.end = FirstAPIRight(p, r.off) + 2
    /\ r.tok.val = Slice(p, r.off, r.end)

C19_LexerComments ==
    \A i \in 1..Len(received) :
        /\ ClosedAPI(lexer.input, received[i].off) =>
              IsWholeAPIComment(received[i], lexer.input)
        /\ received[i].tok.typ = "tokenCommentAPI" =>
              ClosedAPI(lexer.input, received[i].off)
        /\ ~SilentComment(lexer.input, received[i].off)

(***************************************************************************)
(* C20: every token of a lexer made by lex(file, input), error and EOF     *)
(* tokens included, carries the label file in its field file.              *)
(***************************************************************************)
C20_TokensCarryLabel == \A i \in 1..Len(Sent) : Sent[i].file = label


(***************************************************************************)
(* C21: every token of the lexer carries line = 1 + the number of '\n'     *)
(* before its first rune and column = 1 + the number of runes between the  *)
(* last '\n' and that rune, a multi-byte rune counting for one; the value  *)
(* of a token that is not an error is the text that starts there, and an   *)
(* error token is at the start of the malformed token: the unexpected      *)
(* rune, the lone '.', the '/' or the opening of the unclosed comment.     *)
(***************************************************************************)
\* the token r carries the line and the column of the offset r.off of p
IsAtItsOffset(r, p) ==
    /\ r.tok.line = 1 + CountLF(Slice(p, 0, r.off))
    /\ r.tok.column = 1 + RuneCount(Slice(p, LineStart(p, r.off), r.off))

\* the error token r starts where the malformed token of p starts
ErrorStartsAt(r, p) ==
    CASE r.tok.val.format = "Unexpected character %q" ->
            r.off < Len(p) /\ RuneAt(p, r.off)[1] = r.tok.val.arg
      [] r.tok.val.format = "Unexpected character %q after '.'" ->
            ByteAt(p, r.off) = B.dot
      [] r.tok.val.format = "Unexpected character %q after '/'" ->
            ByteAt(p, r.off) = B.slash
      [] r.tok.val.format = "Unclosed comment" -> OpensBlock(p, r.off)

\* the token r starts at r.off
StartsAtItsOffset(r, p) ==
    IF r.tok.typ = "tokenError" THEN ErrorStartsAt(r, p)
    ELSE /\ r.tok.val = Slice(p, r.off, r.end)
         /\ ByteAt(p, r.off) \notin spaceChars

C21_LexerPositions ==
    \A i \in 1..Len(received) :
        /\ IsAtItsOffset(received[i], lexer.input)
        /\ StartsAtItsOffset(received[i], lexer.input)

\* an error token on the second line, after a 2-byte rune of that line
C21_Witness ==
    \E i \in 1..Len(received) :
        /\ received[i].tok.typ = "tokenError"
        /\ received[i].tok.line = 2
        /\ received[i].tok.column = 3
        /\ received[i].off - LineStart(lexer.input, received[i].off) = 3

(***************************************************************************)
(* C22: the lexer ends after finitely many tokens: every token it sends    *)
(* that is not tokenEOF or tokenError has consumed at least one rune of    *)
(* the input and starts where the token before it stopped or later, so it  *)
(* sends at most as many such tokens as the input has runes.               *)
(***************************************************************************)
\* the tokens received that are not terminal
NonTerminals == {i \in 1..Len(received) : received[i].tok.typ \notin Terminal}

C22_TokensConsumeInput ==
    /\ \A i \in NonTerminals :
          /\ received[i].end > received[i].off
          /\ i > 1 => received[i].off >= received[i - 1].end
    /\ Cardinality(NonTerminals) <= RuneCount(lexer.input)

(***************************************************************************)
(* C23: a comment opened by "/*" or "/**" is ended by the first "*/" that  *)
(* follows the left delimiter, also when a '*' is right before that "*/";  *)
(* the error "Unclosed comment" is sent only when no "*/" follows the left *)
(* delimiter.                                                              *)
(***************************************************************************)
\* the offsets of the "*/" past the left delimiter of the comment at off
RightsPastDelim(p, off) ==
    IF OpensAPI(p, off) THEN APIRights(p, off) ELSE RightDelims(p, off)

C23_FirstRightEndsComment ==
    \A i \in 1..Len(received) :
        /\ (received[i].tok.typ = "tokenError"
               /\ received[i].tok.val.format = "Unclosed comment") =>
              RightsPastDelim(lexer.input, received[i].off) = {}
        /\ received[i].tok.typ = "tokenCommentAPI" =>
              received[i].end = FirstAPIRight(lexer.input, received[i].off) + 2


(***************************************************************************)
(* C24: every Scan call that returns a token other than EOF advances pos   *)
(* by at least one byte, so the first EOF comes after at most len(src)     *)
(* tokens that are not EOF.                                                *)
(***************************************************************************)
\* the Scan calls that returned a token other than EOF
NonEOFs == {i \in 1..NTok : toks[i].tok # "EOF"}

C24_ScanAdvances ==
    /\ \A i \in NonEOFs : toks[i].end > PrevEnd(i)
    /\ Cardinality(NonEOFs) <= Len(src)
    /\ NTok > 0 => pos = LastTok.end

\* an input of three bytes or more gave as many tokens as it has bytes,
\* then EOF
C24_Witness ==
    /\ Len(src) >= 3
    /\ Cardinality(NonEOFs) = Len(src)
    /\ NTok > Len(src)
    /\ LastTok.tok = "EOF"

(***************************************************************************)
(* C25: the literal returned with every token other than EOF is not empty  *)
(* and is the bytes src[p0:p1] the call consumed after the whitespace, for *)
(* RANGE, the lone '.' and the unterminated comment too; the literal of    *)
(* EOF is empty.                                                           *)
(***************************************************************************)
C25_LiteralIsWhatWasConsumed ==
    \A i \in 1..NTok :
        IF toks[i].tok = "EOF" THEN toks[i].lit = <<>>
        ELSE /\ toks[i].lit # <<>>
             /\ toks[i].lit = Slice(src, toks[i].off, toks[i].end)


(***************************************************************************)
(* The lexer and a Scanner over the same plain input: the goroutine of the *)
(* lexer, the consumer calling nextToken and the Scan calls interleave.    *)
(***************************************************************************)
\* ASCII letters, ASCII digits, the whitespace, the simple symbols and '.'
PlainBytes ==
    (65..90) \cup (97..122) \cup (48..57)
        \cup {B.sp, B.tab, B.cr, B.lf}
        \cup {B.comma, B.semi, B.colon, B.ldel, B.rdel, B.lpar, B.rpar,
              B.lidx, B.ridx, B.eq, B.dot}

\* the number of '.' right before the byte k of p
RECURSIVE DotsBefore(_, _)
DotsBefore(p, k) ==
    IF k > 1 /\ p[k - 1] = B.dot THEN 1 + DotsBefore(p, k - 1) ELSE 0

\* the '.' of p come in pairs ".."
DotsInPairs(p) ==
    \A k \in 1..Len(p) :
        (p[k] = B.dot /\ DotsBefore(p, k) % 2 = 0) =>
            (k < Len(p) /\ p[k + 1] = B.dot)

Plain(p) == (\A k \in 1..Len(p) : p[k] \in PlainBytes) /\ DotsInPairs(p)

AlphaPlain == {B.x, B.d1, B.sp, B.lf, B.semi, B.dot}

PlainMoreInputs == {
    \* a CR LF line end: a\r\nb
    <<97, 13, 10, 98>>,
    \* a CR alone, then a range: 1\r2..3
    <<49, 13, 50, 46, 46, 51>>,
    \* a tab between the booleans: true\tfalse
    <<116, 114, 117, 101, 9, 102, 97, 108, 115, 101>> }

PlainInputs ==
    {p \in SeqsUpTo(AlphaPlain, MaxLen) \cup LexTestInputs \cup TestInputs
            \cup PlainMoreInputs :
        Plain(p)}

\* l := lex(file, input) and s := New(file, []byte(input))
InitBoth ==
    /\ \E file \in LexFiles, input \in PlainInputs :
          /\ label = file
          /\ lexer = lex(file, input)
          /\ Is(New(file, input))
    /\ goroutine = At("start", FALSE, "nil")
    /\ tokens = <<>>
    /\ closed = 0
    /\ consumer = "nextToken"
    /\ received = <<>>
    /\ toks = <<>>
    /\ peers = <<>>
    /\ NoOrder

NextBoth ==
    \/ RunStart
    \/ Step
    \/ Receive
    \/ Close
    \/ Scan

SpecBoth == InitBoth /\ [][NextBoth]_vars

\* the token kinds of package token and the token types of the lexer
Kinds == { <<"EOF", "tokenEOF">>, <<"ILLEGAL", "tokenError">>,
           <<"COMMENT", "tokenCommentAPI">>,
           <<"NUMBER", "tokenNumber">>, <<"IDENT", "tokenIdentifier">>,
           <<"TRUE", "tokenTrue">>, <<"FALSE", "tokenFalse">>,
           <<"DECL", "tokenDecl">>, <<"IN", "tokenIN">>, <<"OUT", "tokenOUT">>,
           <<"PARTS", "tokenPARTS">>, <<"CLOCKED", "tokenCLOCKED">>,
           <<"COMMA", "tokenComma">>, <<"SEMICOLON", "tokenSemiCol">>,
           <<"COLON", "tokenColumn">>, <<"LEFTDELIM", "tokenLeftDelim">>,
           <<"RIGTDELIM", "tokenRightDelim">>, <<"LEFTPAR", "tokenLeftPar">>,
           <<"RIGHTPAR", "tokenRightPar">>, <<"LEFTINDEX", "tokenLeftIndex">>,
           <<"RIGHTINDEX", "tokenRightIndex">>, <<"RANGE", "tokenRange">>,
           <<"PIPE", "tokenPipe">> }

\* what is compared: kind, line, column and literal
LexQuad(r) == <<r.tok.typ, r.tok.line, r.tok.column, r.tok.val>>

ScanQuad(o) ==
    <<(CHOOSE k \in Kinds : k[1] = o.tok)[2], Line(o.pos), Column(o.pos), o.lit>>

\* the number of Scan calls up to and including the first EOF
UpToEOF ==
    IF NumEOF = 0 THEN NTok
    ELSE CHOOSE i \in 1..NTok :
            toks[i].tok = "EOF" /\ \A j \in 1..(i - 1) : toks[j].tok # "EOF"

(***************************************************************************)
(* C26: on plain input (ASCII letters and digits, whitespace, the simple   *)
(* symbols and '.' in pairs only) the tokens received from the lexer up to *)
(* tokenEOF and the tokens returned by Scan up to the first EOF are the    *)
(* same sequence of (kind, line, column, literal).                         *)
(***************************************************************************)
C26_LexerAgreesWithScanner ==
    /\ \A i \in 1..Len(received) :
          i <= UpToEOF => LexQuad(received[i]) = ScanQuad(toks[i])
    /\ (consumer = "done" /\ NumEOF > 0) => Len(received) = UpToEOF

\* both have read an input of two lines to its end
C26_Witness ==
    /\ consumer = "done"
    /\ NumEOF > 0
    /\ Len(received) >= 4
    /\ \E i \in 1..Len(received) :
          received[i].tok.line = 2 /\ received[i].tok.column > 1


(***************************************************************************)
(* Position.Less: three positions p, q, r (positions[1], positions[2],     *)
(* positions[3]) and the calls x.Less(y) made on them, in any order.       *)
(***************************************************************************)
MaxLine == 1

MaxCol == 2

\* NewPosition(line, column), 0-indexed
NewPosition(l, c) == [line |-> l, column |-> c]

Positions == {NewPosition(l, c) : l \in 0..MaxLine, c \in 0..MaxCol}

InitLess ==
    /\ positions \in [1..3 -> Positions]
    /\ less = {}
    /\ Is(New("", <<>>))
    /\ toks = <<>>
    /\ peers = <<>>
    /\ NoLexer

\* the call positions[i].Less(positions[j])
LessCall(i, j) ==
    /\ less' = less \cup {<<i, j, Less(positions[i], positions[j])>>}
    /\ UNCHANGED <<positions, scannerVars, peers, lexerVars>>

NextLess == \E i \in 1..3, j \in 1..3 : LessCall(i, j)

SpecLess == InitLess /\ [][NextLess]_vars

\* the call positions[i].Less(positions[j]) returned true, returned false
Holds(i, j) == <<i, j, TRUE>> \in less

Fails(i, j) == <<i, j, FALSE>> \in less

\* p is before q by line first and column second
Before(p, q) == p.line < q.line \/ (p.line = q.line /\ p.column < q.column)

(***************************************************************************)
(* C27: Position.Less is a strict total order on positions, by line first  *)
(* and column second: never p.Less(p); p.Less(q) excludes q.Less(p);       *)
(* p.Less(q) and q.Less(r) give p.Less(r); and of two positions that       *)
(* differ in line or column exactly one is Less than the other.            *)
(***************************************************************************)
C27_LessIsStrictTotalOrder ==
    \A i \in DOMAIN positions, j \in DOMAIN positions :
        /\ positions[i] = positions[j] => ~Holds(i, j)
        /\ ~(Holds(i, j) /\ Holds(j, i))
        /\ \A k \in DOMAIN positions :
              (Holds(i, j) /\ Holds(j, k)) => ~Fails(i, k)
        /\ positions[i] # positions[j] => ~(Fails(i, j) /\ Fails(j, i))
        /\ Holds(i, j) => Before(positions[i], positions[j])
        /\ Fails(i, j) => ~Before(positions[i], positions[j])

\* all nine calls were made on three positions whose columns are in the
\* opposite order of their lines
C27_Witness ==
    /\ Cardinality(less) = 9
    /\ positions = <<NewPosition(0, 2), NewPosition(1, 0), NewPosition(1, 1)>>
    /\ Holds(1, 2) /\ Holds(2, 3) /\ Holds(1, 3)
    /\ Fails(2, 1) /\ Fails(1, 1)

====
